---- MODULE Spec2Model ----
(***************************************************************************)
(* A model of func_timeout (dafunc.py) and FunctionTimedOut                *)
(* (exceptions.py).                                                        *)
(*                                                                         *)
(* One invoking context calls func_timeout, FunctionTimedOut.retry and     *)
(* func_set_timeout.  Every call of func_timeout owns a frame: its locals  *)
(* (timeout, func, args, kwargs, ret, exception, isStopped) and its worker *)
(* thread, which runs funcwrap.  Workers of earlier calls that are still   *)
(* alive keep running beside the later calls.                              *)
(*                                                                         *)
(* Documented domain of the inputs: func is a function (it has a __name__),*)
(* timeout is a number or None.  FunctionTimedOut.retry passes on what the *)
(* failure recorded, which may be None.                                    *)
(*                                                                         *)
(* Time is abstract: a bounded join may return at any moment (its bound    *)
(* has expired) and every interleaving of the invoker, the workers and     *)
(* the redelivery of the stop signal is a behaviour.  What func does is    *)
(* not fixed: it may return any of Values, raise any of ErrClasses, keep   *)
(* running, and let an injected error through or discard it.               *)
(*                                                                         *)
(* StoppableThread (join, isAlive, _stopThread and the delivery of the     *)
(* signal) is not part of the sources modelled here; it follows the        *)
(* description of the Interruptible Worker.                                *)
(***************************************************************************)
EXTENDS Integers, Sequences, FiniteSets, TLC

(***************************************************************************)
(* Bounds of the model.                                                    *)
(***************************************************************************)
MaxCalls == 2

(***************************************************************************)
(* Python values, tagged with their type.                                  *)
(***************************************************************************)
None == [t |-> "None"]
Num(n) == [t |-> "num", v |-> n]
Tup(s) == [t |-> "tuple", v |-> s]
List(s) == [t |-> "list", v |-> s]
Dict(S) == [t |-> "dict", v |-> S]
Str(s) == [t |-> "str", v |-> s]
Fn(n) == [t |-> "function", v |-> n]

\* RETRY_SAME_TIMEOUT = 'RETRY_SAME_TIMEOUT'
RETRY_SAME_TIMEOUT == Str(<<"RETRY_SAME_TIMEOUT">>)

\* Python truth value of an object (the test made by "if not x", "if x").
Truthy(x) ==
    CASE x.t = "None" -> FALSE
      [] x.t = "num" -> x.v # 0
      [] x.t = "tuple" -> Len(x.v) > 0
      [] x.t = "list" -> Len(x.v) > 0
      [] x.t = "str" -> Len(x.v) > 0
      [] x.t = "dict" -> x.v # {}
      [] OTHER -> TRUE

(***************************************************************************)
(* Errors.  cls is the class; src says where the object was made:          *)
(* "func" (raised by the callable's own code), "call" (raised by calling   *)
(* an object that is not callable), "async" (made when the injected class  *)
(* is raised in the worker), "line84" (made by func_timeout at the raise   *)
(* of its timeout path), "user" (made by the invoker), "interp" (raised by *)
(* the interpreter in the invoking context); k is the call whose frame it  *)
(* was made in (0: none).                                                  *)
(***************************************************************************)
Err(cls, src, k) == [t |-> "error", cls |-> cls, src |-> src, k |-> k]

\* The classes the two except clauses of funcwrap tell apart:
\* FunctionTimedOut(BaseException), and the subclasses of Exception.
IsFunctionTimedOut(e) == e.cls = "FunctionTimedOut"
IsException(e) == e.cls \in {"ValueError", "TypeError", "AttributeError", "NameError"}

\* FunctionTimedOut.getMsg: the message built from the recorded fields, or
\* the error the formatting raises (None has no __name__; %f needs a number).
getMsg(self, k) ==
    IF self.timedOutFunction.t # "function" THEN Err("AttributeError", self.src, k)
    ELSE IF self.timedOutAfter.t # "num" THEN Err("TypeError", self.src, k)
    ELSE Str(<<self.timedOutFunction.v, self.timedOutArgs, self.timedOutKwargs, self.timedOutAfter>>)

\* FunctionTimedOut.__init__: the object constructed, or the error raised
\* by getMsg when no message is given.
FunctionTimedOut(msg, timedOutAfter, timedOutFunction, timedOutArgs, timedOutKwargs, src, k) ==
    LET self == [t |-> "error", cls |-> "FunctionTimedOut", src |-> src, k |-> k,
                 timedOutAfter |-> timedOutAfter,
                 timedOutFunction |-> timedOutFunction,
                 timedOutArgs |-> timedOutArgs,
                 timedOutKwargs |-> timedOutKwargs]
        m == IF ~Truthy(msg) THEN getMsg(self, k) ELSE msg
    IN IF m.t = "error" THEN m
       ELSE [t |-> "error", cls |-> "FunctionTimedOut", src |-> src, k |-> k,
             timedOutAfter |-> timedOutAfter,
             timedOutFunction |-> timedOutFunction,
             timedOutArgs |-> timedOutArgs,
             timedOutKwargs |-> timedOutKwargs,
             msg |-> m]

\* The message formatted at the raise of the timeout path, or the error
\* the formatting raises (func.__name__ of an object without one, %f of a
\* value that is not a number).
TimeoutMsg(timeout, func, args, kwargs, k) ==
    IF func.t # "function" THEN Err("AttributeError", "line84", k)
    ELSE IF timeout.t # "num" THEN Err("TypeError", "line84", k)
    ELSE Str(<<func.v, args, kwargs, timeout>>)

\* raise FunctionTimedOut('Function %s ... timed out after %f seconds.' % (...)):
\* the message is the only argument; the other parameters keep their default.
RaisedTimedOut(timeout, func, args, kwargs, k) ==
    LET m == TimeoutMsg(timeout, func, args, kwargs, k)
    IN IF m.t = "error" THEN m
       ELSE FunctionTimedOut(m, None, None, None, None, "line84", k)

\* What raising the class stopException = FunctionTimedOut in the worker
\* produces: the class is instantiated without arguments.
InjectedError(k) ==
    FunctionTimedOut(Str(<<>>), None, None, None, None, "async", k)


(***************************************************************************)
(* Outcomes delivered to the invoking context.                             *)
(***************************************************************************)
NoOut == [kind |-> "none"]
Return(v) == [kind |-> "return", v |-> v]
Raise(e) == [kind |-> "raise", v |-> e]

\* Mutant: no clause for FunctionTimedOut ahead of "except Exception", and
\* FunctionTimedOut derived from Exception.
ExceptClauseNoTimedOut(e) ==
    IF IsFunctionTimedOut(e) \/ IsException(e) THEN "handler"
    ELSE "uncaught"

\* funcwrap's except clauses, in their order: which clause takes an error
\* raised inside the try block.
ExceptClause(e) ==
    IF IsFunctionTimedOut(e) THEN "pass"
    ELSE IF IsException(e) THEN "handler"
    ELSE "uncaught"

\* Mutant: "if ret[0]: return ret[0]", the truth value of the result
\* instead of that of the list.
DeliverOutcomeTruthy(exception, ret) ==
    IF Len(exception) > 0 THEN Raise(exception[1])
    ELSE IF Len(ret) > 0 /\ Truthy(ret[1]) THEN Return(ret[1])
    ELSE Return(None)

\* The end of func_timeout once the worker is known to have finished:
\* "if exception: raise exception[0]", "if ret: return ret[0]", and the
\* implicit return of None.
DeliverOutcome(exception, ret) ==
    IF Len(exception) > 0 THEN Raise(exception[1])
    ELSE IF Len(ret) > 0 THEN Return(ret[1])
    ELSE Return(None)

\* "if not kwargs: kwargs = {}" and "if not args: args = ()".
NormKwargs(kwargs) == IF ~Truthy(kwargs) THEN Dict({}) ELSE kwargs
NormArgs(args) == IF ~Truthy(args) THEN Tup(<<>>) ELSE args

\* thread.join(.1): the grace period, in tenths of a second.
GraceTenths == 1

(***************************************************************************)
(* Inputs.                                                                 *)
(***************************************************************************)
Funcs == {Fn("f")}
TimeoutsIn == {Num(10)}
RetryTimeouts == {RETRY_SAME_TIMEOUT, Num(20)}
ArgsIn == {Tup(<<1>>)}
KwargsIn == {None}
\* what a callable may return, falsy values included
Values == {None, Num(0), Num(42)}
\* what a callable may raise
ErrClasses == {"ValueError", "KeyboardInterrupt", "FunctionTimedOut"}

\* The error object a callable raises when it raises class cls in call k.
FuncError(cls, k) ==
    IF cls = "FunctionTimedOut"
    THEN FunctionTimedOut(Str(<<"m">>), None, None, None, None, "func", k)
    ELSE Err(cls, "func", k)

(***************************************************************************)
(* State.                                                                  *)
(***************************************************************************)
VARIABLES
    calls,     \* the frames of the calls of func_timeout made so far
    pc,        \* where the invoking context is
    result,    \* the outcome of the invoker's last operation
    held,      \* the FunctionTimedOut object the invoker holds, or None
    heldFrom,  \* the call whose timeout path raised held (0: made by the invoker)
    lastOp,    \* the invoker's last operation
    direct     \* the callable retry(None) runs in the invoking context

vars == <<calls, pc, result, held, heldFrom, lastOp, direct>>

NoDirect == [t |-> "None"]

\* The frame of a new call: the locals of func_timeout after
\* "thread.start()", and its worker at the call of func.
NewFrame(timeout, func, args, kwargs, origin) ==
    [timeout |-> timeout, func |-> func,
     argsIn |-> args, kwargsIn |-> kwargs,
     args |-> NormArgs(args), kwargs |-> NormKwargs(kwargs),
     ret |-> <<>>, exception |-> <<>>, isStopped |-> FALSE,
     tpc |-> "func", tval |-> None, asyncExc |-> FALSE, joinThread |-> FALSE,
     injected |-> FALSE,
     fres |-> NoOut, observed |-> "none", out |-> NoOut, origin |-> origin]

cur == Len(calls)
Ids == 1..Len(calls)
isAlive(k) == calls[k].tpc # "dead"

Init ==
    /\ calls = <<>>
    /\ pc = "idle"
    /\ result = NoOut
    /\ held = None
    /\ heldFrom = 0
    /\ lastOp = [name |-> "none"]
    /\ direct = NoDirect

(***************************************************************************)
(* The worker thread of call k: funcwrap.                                  *)
(***************************************************************************)
\* An error e is raised inside the try block of funcwrap.
RaisedInTry(f, e) ==
    CASE ExceptClause(e) = "pass" -> [f EXCEPT !.tpc = "exit", !.tval = None]
      [] ExceptClause(e) = "handler" -> [f EXCEPT !.tpc = "handler", !.tval = e]
      [] OTHER -> [f EXCEPT !.tpc = "exit", !.tval = None]

\* func returns v; ret.append has not run yet.
FuncReturn(k, v) ==
    /\ calls[k].tpc = "func"
    /\ calls[k].func.t = "function"
    /\ calls' = [calls EXCEPT ![k].tpc = "append", ![k].tval = v, ![k].fres = Return(v)]
    /\ UNCHANGED <<pc, result, held, heldFrom, lastOp, direct>>

\* func raises an error of its own.
FuncRaise(k, cls) ==
    /\ calls[k].tpc = "func"
    /\ calls[k].func.t = "function"
    /\ LET e == FuncError(cls, k)
       IN calls' = [calls EXCEPT ![k] = RaisedInTry([@ EXCEPT !.fres = Raise(e)], e)]
    /\ UNCHANGED <<pc, result, held, heldFrom, lastOp, direct>>

\* func is not callable (None): the call itself raises TypeError.
FuncNotCallable(k) ==
    /\ calls[k].tpc = "func"
    /\ calls[k].func.t # "function"
    /\ calls' = [calls EXCEPT ![k] = RaisedInTry(@, Err("TypeError", "call", k))]
    /\ UNCHANGED <<pc, result, held, heldFrom, lastOp, direct>>

\* ret.append( func(...) )
AppendRet(k) ==
    /\ calls[k].tpc = "append"
    /\ calls' = [calls EXCEPT ![k].ret = Append(@, calls[k].tval),
                              ![k].tpc = "exit", ![k].tval = None]
    /\ UNCHANGED <<pc, result, held, heldFrom, lastOp, direct>>

\* Mutant: the test inverted, "if isStopped is True:".
CheckStoppedInverted(k) ==
    /\ calls[k].tpc = "handler"
    /\ IF calls[k].isStopped = TRUE
       THEN calls' = [calls EXCEPT ![k].tpc = "capture"]
       ELSE calls' = [calls EXCEPT ![k].tpc = "exit", ![k].tval = None]
    /\ UNCHANGED <<pc, result, held, heldFrom, lastOp, direct>>

\* Mutant: the handler without the test of isStopped.
CheckStoppedNever(k) ==
    /\ calls[k].tpc = "handler"
    /\ calls' = [calls EXCEPT ![k].tpc = "capture"]
    /\ UNCHANGED <<pc, result, held, heldFrom, lastOp, direct>>

\* Mutant: one isStopped for the module, shared by every call.
CheckStoppedShared(k) ==
    /\ calls[k].tpc = "handler"
    /\ IF \A j \in Ids : calls[j].isStopped = FALSE
       THEN calls' = [calls EXCEPT ![k].tpc = "capture"]
       ELSE calls' = [calls EXCEPT ![k].tpc = "exit", ![k].tval = None]
    /\ UNCHANGED <<pc, result, held, heldFrom, lastOp, direct>>

\* "if isStopped is False:" inside "except Exception as e".
CheckStopped(k) ==
    /\ calls[k].tpc = "handler"
    /\ IF calls[k].isStopped = FALSE
       THEN calls' = [calls EXCEPT ![k].tpc = "capture"]
       ELSE calls' = [calls EXCEPT ![k].tpc = "exit", ![k].tval = None]
    /\ UNCHANGED <<pc, result, held, heldFrom, lastOp, direct>>

\* Mutant: the handler also fills the value slot, "ret.append(None)".
CaptureAlsoRet(k) ==
    /\ calls[k].tpc = "capture"
    /\ calls' = [calls EXCEPT ![k].exception = Append(@, calls[k].tval),
                              ![k].ret = Append(@, None),
                              ![k].tpc = "exit", ![k].tval = None]
    /\ UNCHANGED <<pc, result, held, heldFrom, lastOp, direct>>

\* exception.append(e)
Capture(k) ==
    /\ calls[k].tpc = "capture"
    /\ calls' = [calls EXCEPT ![k].exception = Append(@, calls[k].tval),
                              ![k].tpc = "exit", ![k].tval = None]
    /\ UNCHANGED <<pc, result, held, heldFrom, lastOp, direct>>

\* funcwrap is over; the thread finishes and is no longer alive.
ThreadExit(k) ==
    /\ calls[k].tpc = "exit"
    /\ calls' = [calls EXCEPT ![k].tpc = "dead", ![k].asyncExc = FALSE]
    /\ UNCHANGED <<pc, result, held, heldFrom, lastOp, direct>>


(***************************************************************************)
(* The injected signal in the worker of call k.  The thread state holds a  *)
(* pending asynchronous exception (asyncExc) until the thread reaches a    *)
(* checkpoint, where the class is raised as if by the code at that point.  *)
(***************************************************************************)
\* The signal surfaces inside func, which lets it propagate.
SurfaceInFunc(k) ==
    /\ calls[k].asyncExc
    /\ calls[k].tpc = "func"
    /\ calls[k].func.t = "function"
    /\ LET e == InjectedError(k)
       IN calls' = [calls EXCEPT ![k] =
                       RaisedInTry([@ EXCEPT !.asyncExc = FALSE, !.fres = Raise(e)], e)]
    /\ UNCHANGED <<pc, result, held, heldFrom, lastOp, direct>>

\* The signal surfaces inside func, which catches and discards it.
SwallowInFunc(k) ==
    /\ calls[k].asyncExc
    /\ calls[k].tpc = "func"
    /\ calls[k].func.t = "function"
    /\ calls' = [calls EXCEPT ![k].asyncExc = FALSE]
    /\ UNCHANGED <<pc, result, held, heldFrom, lastOp, direct>>

\* The signal surfaces in funcwrap itself: in the try block after func has
\* returned, inside the except handler (it then leaves funcwrap uncaught),
\* or after the try statement.
SurfaceInWrap(k) ==
    /\ calls[k].asyncExc
    /\ calls[k].tpc \in {"append", "handler", "capture", "exit"}
    /\ calls' = [calls EXCEPT ![k] =
                    IF @.tpc = "append"
                    THEN RaisedInTry([@ EXCEPT !.asyncExc = FALSE], InjectedError(k))
                    ELSE [@ EXCEPT !.asyncExc = FALSE, !.tpc = "exit", !.tval = None]]
    /\ UNCHANGED <<pc, result, held, heldFrom, lastOp, direct>>

(***************************************************************************)
(* StoppableThread: the stop request and its redelivery.                   *)
(***************************************************************************)
\* Mutant: the redelivery is started whether or not the thread is alive.
stopThreadUnchecked(f) == [f EXCEPT !.joinThread = TRUE]

\* _stopThread(exception) on the worker of frame f: nothing when the thread
\* has finished, else the thread that redelivers the signal is started.
stopThread(f) ==
    IF f.tpc = "dead" THEN f ELSE [f EXCEPT !.joinThread = TRUE]

\* Mutant: the signal is delivered once per stop request.
RedeliverOnce(k) ==
    /\ calls[k].joinThread
    /\ isAlive(k)
    /\ ~calls[k].asyncExc
    /\ ~calls[k].injected
    /\ calls' = [calls EXCEPT ![k].asyncExc = TRUE, ![k].injected = TRUE]
    /\ UNCHANGED <<pc, result, held, heldFrom, lastOp, direct>>

\* One delivery of the signal to the worker, while it is alive.
Redeliver(k) ==
    /\ calls[k].joinThread
    /\ isAlive(k)
    /\ ~calls[k].asyncExc
    /\ calls' = [calls EXCEPT ![k].asyncExc = TRUE, ![k].injected = TRUE]
    /\ UNCHANGED <<pc, result, held, heldFrom, lastOp, direct>>

\* The redelivery ends once the worker is no longer alive.
RedeliverEnd(k) ==
    /\ calls[k].joinThread
    /\ ~isAlive(k)
    /\ calls' = [calls EXCEPT ![k].joinThread = FALSE]
    /\ UNCHANGED <<pc, result, held, heldFrom, lastOp, direct>>

(***************************************************************************)
(* The invoking context inside func_timeout, on the frame of call cur.     *)
(***************************************************************************)
\* thread.join(timeout) may return: the thread has finished, or the wait
\* is bounded and its bound has expired.
JoinMayReturn(k, timeout) ==
    \/ ~isAlive(k)
    \/ timeout.t = "num"

\* func_timeout(timeout, func, args, kwargs) up to thread.start().
StartCall(timeout, func, args, kwargs, origin) ==
    /\ Len(calls) < MaxCalls
    /\ calls' = Append(calls, NewFrame(timeout, func, args, kwargs, origin))
    /\ pc' = "join"
    /\ result' = NoOut

Call(timeout, func, args, kwargs) ==
    /\ pc = "idle"
    /\ StartCall(timeout, func, args, kwargs, [op |-> "call"])
    /\ lastOp' = [name |-> "func_timeout"]
    /\ UNCHANGED <<held, heldFrom, direct>>

\* thread.join(timeout)
Join ==
    /\ pc = "join"
    /\ JoinMayReturn(cur, calls[cur].timeout)
    /\ pc' = "isAlive"
    /\ UNCHANGED <<calls, result, held, heldFrom, lastOp, direct>>

\* Mutant: no liveness check, the outcome is read when join(timeout) returns.
IsAliveSkipped ==
    /\ pc = "isAlive"
    /\ pc' = "deliver"
    /\ calls' = [calls EXCEPT ![cur].observed = "dead"]
    /\ UNCHANGED <<result, held, heldFrom, lastOp, direct>>

\* Mutant: "isStopped = True" placed before the liveness check.
IsAliveSetsStopped ==
    /\ pc = "isAlive"
    /\ IF isAlive(cur)
       THEN /\ pc' = "setStopped"
            /\ calls' = [calls EXCEPT ![cur].observed = "alive", ![cur].isStopped = TRUE]
       ELSE /\ pc' = "deliver"
            /\ calls' = [calls EXCEPT ![cur].observed = "dead", ![cur].isStopped = TRUE]
    /\ UNCHANGED <<result, held, heldFrom, lastOp, direct>>

\* if thread.isAlive():
IsAlive ==
    /\ pc = "isAlive"
    /\ IF isAlive(cur)
       THEN /\ pc' = "setStopped"
            /\ calls' = [calls EXCEPT ![cur].observed = "alive"]
       ELSE /\ pc' = "deliver"
            /\ calls' = [calls EXCEPT ![cur].observed = "dead"]
    /\ UNCHANGED <<result, held, heldFrom, lastOp, direct>>

\* isStopped = True; stopException = FunctionTimedOut
SetStopped ==
    /\ pc = "setStopped"
    /\ calls' = [calls EXCEPT ![cur].isStopped = TRUE]
    /\ pc' = "stopThread"
    /\ UNCHANGED <<result, held, heldFrom, lastOp, direct>>

\* thread._stopThread(stopException)
StopThread ==
    /\ pc = "stopThread"
    /\ calls' = [calls EXCEPT ![cur] = stopThread(@)]
    /\ pc' = "graceJoin"
    /\ UNCHANGED <<result, held, heldFrom, lastOp, direct>>

\* Mutant: thread.join(), the grace join without its bound.
GraceJoinUnbounded ==
    /\ pc = "graceJoin"
    /\ ~isAlive(cur)
    /\ pc' = "raiseTimeout"
    /\ UNCHANGED <<calls, result, held, heldFrom, lastOp, direct>>

\* thread.join(.1)
GraceJoin ==
    /\ pc = "graceJoin"
    /\ JoinMayReturn(cur, Num(GraceTenths))
    /\ pc' = "raiseTimeout"
    /\ UNCHANGED <<calls, result, held, heldFrom, lastOp, direct>>

\* raise FunctionTimedOut(...): the invoker catches the error and keeps it.
RaiseTimeout ==
    /\ pc = "raiseTimeout"
    /\ LET f == calls[cur]
           e == RaisedTimedOut(f.timeout, f.func, f.args, f.kwargs, cur)
       IN /\ calls' = [calls EXCEPT ![cur].out = Raise(e)]
          /\ result' = Raise(e)
          /\ held' = IF IsFunctionTimedOut(e) THEN e ELSE held
          /\ heldFrom' = IF IsFunctionTimedOut(e) THEN cur ELSE heldFrom
    /\ pc' = "idle"
    /\ UNCHANGED <<lastOp, direct>>

\* if exception: raise exception[0] / if ret: return ret[0]
Deliver ==
    /\ pc = "deliver"
    /\ LET o == DeliverOutcome(calls[cur].exception, calls[cur].ret)
       IN /\ calls' = [calls EXCEPT ![cur].out = o]
          /\ result' = o
    /\ pc' = "idle"
    /\ UNCHANGED <<held, heldFrom, lastOp, direct>>


(***************************************************************************)
(* FunctionTimedOut.retry on the object the invoker holds.                 *)
(***************************************************************************)
\* f(*args, **kwargs) can be entered: f is callable, args can be unpacked
\* as a sequence and kwargs as a mapping.
CanInvoke(func, args, kwargs) ==
    /\ func.t = "function"
    /\ args.t \in {"tuple", "list"}
    /\ kwargs.t = "dict"

\* "if timeout == RETRY_SAME_TIMEOUT: timeout = self.timedOutAfter"
RetryTimeout(self, timeout) ==
    IF timeout = RETRY_SAME_TIMEOUT THEN self.timedOutAfter ELSE timeout

\* retry(None): self.timedOutFunction(*(self.timedOutArgs), **self.timedOutKwargs)
\* in the invoking context.
RetryNone ==
    /\ pc = "idle"
    /\ held # None
    /\ lastOp' = [name |-> "retry", setting |-> None, of |-> heldFrom]
    /\ IF CanInvoke(held.timedOutFunction, held.timedOutArgs, held.timedOutKwargs)
       THEN /\ direct' = [func |-> held.timedOutFunction, args |-> held.timedOutArgs,
                          kwargs |-> held.timedOutKwargs]
            /\ pc' = "direct"
            /\ result' = NoOut
       ELSE /\ result' = Raise(Err("TypeError", "interp", 0))
            /\ UNCHANGED <<pc, direct>>
    /\ UNCHANGED <<calls, held, heldFrom>>

\* retry(timeout), timeout not None: a new call of func_timeout.
Retry(timeout) ==
    /\ pc = "idle"
    /\ held # None
    /\ StartCall(RetryTimeout(held, timeout), held.timedOutFunction,
                 held.timedOutArgs, held.timedOutKwargs,
                 [op |-> "retry", setting |-> timeout, of |-> heldFrom])
    /\ lastOp' = [name |-> "retry", setting |-> timeout, of |-> heldFrom]
    /\ UNCHANGED <<held, heldFrom, direct>>

\* The callable run by retry(None) returns v to the invoker.
DirectReturn(v) ==
    /\ pc = "direct"
    /\ result' = Return(v)
    /\ pc' = "idle"
    /\ direct' = NoDirect
    /\ UNCHANGED <<calls, held, heldFrom, lastOp>>

\* The callable run by retry(None) raises; the error reaches the invoker.
DirectRaise(cls) ==
    /\ pc = "direct"
    /\ result' = Raise(FuncError(cls, 0))
    /\ pc' = "idle"
    /\ direct' = NoDirect
    /\ UNCHANGED <<calls, held, heldFrom, lastOp>>

\* The invoker constructs a FunctionTimedOut of its own, before it makes
\* any call.
Construct(msg, timedOutAfter, timedOutFunction, timedOutArgs, timedOutKwargs) ==
    /\ pc = "idle"
    /\ calls = <<>>
    /\ held = None
    /\ LET e == FunctionTimedOut(msg, timedOutAfter, timedOutFunction,
                                 timedOutArgs, timedOutKwargs, "user", 0)
       IN IF IsFunctionTimedOut(e)
          THEN /\ held' = e
               /\ heldFrom' = 0
               /\ result' = Return(e)
          ELSE /\ result' = Raise(e)
               /\ UNCHANGED <<held, heldFrom>>
    /\ lastOp' = [name |-> "FunctionTimedOut"]
    /\ UNCHANGED <<calls, pc, direct>>


(***************************************************************************)
(* func_set_timeout.                                                       *)
(***************************************************************************)
\* A timeout-computing function: its result depends on the arguments.
timeoutFunction(args, kwargs) == Num(10 * (1 + Len(args.v) + Cardinality(kwargs.v)))

HasKey(kwargs, key) == \E p \in kwargs.v : p[1] = key
Get(kwargs, key) == Num((CHOOSE p \in kwargs.v : p[1] = key)[2])
Pop(kwargs, key) == Dict({p \in kwargs.v : p[1] # key})

\* The four wrappers func_set_timeout can return: the timeout and the
\* keyword arguments a call of the wrapper hands to func_timeout.
\* called says whether the timeout-computing function was called.
_function_wrapper(defaultTimeout, allowOverride, args, kwargs) ==
    LET isTimeoutAFunction == defaultTimeout.t = "function"
    IN IF ~allowOverride /\ ~isTimeoutAFunction
       THEN [useTimeout |-> defaultTimeout, kwargs |-> kwargs, called |-> FALSE]
       ELSE IF ~isTimeoutAFunction
       THEN IF HasKey(kwargs, "forceTimeout")
            THEN [useTimeout |-> Get(kwargs, "forceTimeout"),
                  kwargs |-> Pop(kwargs, "forceTimeout"), called |-> FALSE]
            ELSE [useTimeout |-> defaultTimeout, kwargs |-> kwargs, called |-> FALSE]
       ELSE IF allowOverride
       THEN IF HasKey(kwargs, "forceTimeout")
            THEN [useTimeout |-> Get(kwargs, "forceTimeout"),
                  kwargs |-> Pop(kwargs, "forceTimeout"), called |-> FALSE]
            ELSE [useTimeout |-> timeoutFunction(args, kwargs), kwargs |-> kwargs,
                  called |-> TRUE]
       ELSE [useTimeout |-> timeoutFunction(args, kwargs), kwargs |-> kwargs,
             called |-> TRUE]

DecoTimeouts == {Num(50), Fn("calculateTimeout")}
DecoKwargs == {Dict({<<"x", 1>>}), Dict({<<"x", 1>>, <<"forceTimeout", 10>>})}

\* func_set_timeout(timeout, allowOverride)(func)(*args, **kwargs):
\* "defaultTimeout = copy.copy(timeout)" is the first statement of
\* func_set_timeout, and dafunc.py does not import copy: the name lookup
\* raises NameError and no wrapper is made.  The invoker uses the decorator
\* before it makes any other call.
func_set_timeout(timeout, allowOverride, func, args, kwargs) ==
    /\ pc = "idle"
    /\ calls = <<>>
    /\ result' = Raise(Err("NameError", "interp", 0))
    /\ lastOp' = [name |-> "func_set_timeout", timeout |-> timeout,
                  allowOverride |-> allowOverride, func |-> func,
                  args |-> args, kwargs |-> kwargs]
    /\ UNCHANGED <<calls, pc, held, heldFrom, direct>>

(***************************************************************************)
(* The specification.                                                      *)
(***************************************************************************)
Caller ==
    \/ Join
    \/ IsAlive
    \/ SetStopped
    \/ StopThread
    \/ GraceJoin
    \/ RaiseTimeout
    \/ Deliver

Next ==
    \/ \E k \in Ids, v \in Values : FuncReturn(k, v)
    \/ \E k \in Ids, cls \in ErrClasses : FuncRaise(k, cls)
    \/ \E k \in Ids : FuncNotCallable(k)
    \/ \E k \in Ids : AppendRet(k)
    \/ \E k \in Ids : CheckStopped(k)
    \/ \E k \in Ids : Capture(k)
    \/ \E k \in Ids : ThreadExit(k)
    \/ \E k \in Ids : SurfaceInFunc(k)
    \/ \E k \in Ids : SwallowInFunc(k)
    \/ \E k \in Ids : SurfaceInWrap(k)
    \/ \E k \in Ids : Redeliver(k)
    \/ \E k \in Ids : RedeliverEnd(k)
    \/ Caller
    \/ \E timeout \in TimeoutsIn, func \in Funcs, args \in ArgsIn, kwargs \in KwargsIn :
          Call(timeout, func, args, kwargs)
    \/ \E timeout \in RetryTimeouts : Retry(timeout)
    \/ RetryNone
    \/ \E v \in Values : DirectReturn(v)
    \/ \E cls \in ErrClasses : DirectRaise(cls)
    \/ Construct(Str(<<>>), None, None, None, None)
    \/ Construct(Str(<<>>), Num(10), Fn("f"), Tup(<<1>>), Dict({}))
    \/ \E timeout \in DecoTimeouts, allowOverride \in BOOLEAN, kwargs \in DecoKwargs :
          func_set_timeout(timeout, allowOverride, Fn("f"), Tup(<<1>>), kwargs)

Spec == Init /\ [][Next]_vars

\* The invoking context is scheduled, and a bounded join returns once its
\* bound has expired; nothing is assumed of the workers.
FairSpec == Spec /\ WF_vars(Caller)

\* A step of funcwrap outside the callable, or the failing call of an object
\* that is not callable: the worker thread needs only to be scheduled.  The
\* end of the thread after funcwrap (ThreadExit) is scheduled on its own.
WrapStep(k) ==
    \/ FuncNotCallable(k)
    \/ AppendRet(k)
    \/ CheckStopped(k)
    \/ Capture(k)
    \/ SurfaceInWrap(k)

\* The worker threads and the redelivering threads are scheduled, and a
\* callable to which the signal is delivered again and again lets it
\* through at some delivery (it discards only finitely many).  Nothing is
\* assumed of a callable that receives no signal.
RedeliverySpec ==
    /\ Spec
    /\ \A k \in 1..MaxCalls :
          /\ WF_vars(k \in Ids /\ WrapStep(k))
          /\ WF_vars(k \in Ids /\ ThreadExit(k))
          /\ WF_vars(k \in Ids /\ (Redeliver(k) \/ RedeliverEnd(k)))
          /\ SF_vars(k \in Ids /\ SurfaceInFunc(k))

TypeOK ==
    /\ pc \in {"idle", "join", "isAlive", "setStopped", "stopThread", "graceJoin",
               "raiseTimeout", "deliver", "direct"}
    /\ Len(calls) <= MaxCalls
    /\ \A k \in Ids : calls[k].tpc \in {"func", "append", "handler", "capture", "exit", "dead"}


(***************************************************************************)
(* Properties.                                                             *)
(***************************************************************************)
Left(k) == calls[k].out # NoOut
Finished(k) == calls[k].observed = "dead"
TimedOut(k) == calls[k].observed = "alive"

\* C1: a call whose callable returned v, and whose worker the liveness check
\* after join(timeout) found finished, returns exactly v (falsy or not), and
\* its worker is not alive when it returns.
C1_ReturnsExactValue ==
    \A k \in Ids :
        (Finished(k) /\ calls[k].fres.kind = "return" /\ Left(k))
            => /\ calls[k].out = calls[k].fres
               /\ ~isAlive(k)

\* C1 happens: a call has returned the falsy value 0 its callable returned.
C1_Witness ==
    \E k \in Ids :
        /\ Finished(k)
        /\ calls[k].fres = Return(Num(0))
        /\ calls[k].out = Return(Num(0))

C3_TimeoutRecordsCall ==
    \A k \in Ids :
        (TimedOut(k) /\ Left(k) /\ calls[k].func.t = "function")
            => /\ calls[k].out.kind = "raise"
               /\ IsFunctionTimedOut(calls[k].out.v)
               /\ calls[k].out.v.timedOutAfter = calls[k].timeout
               /\ calls[k].out.v.timedOutFunction = calls[k].func
               /\ calls[k].out.v.timedOutArgs = calls[k].args
               /\ calls[k].out.v.timedOutKwargs = calls[k].kwargs

\* C4: once the liveness check has found the worker alive, the call ends
\* with the Timeout Failure raised by func_timeout and with nothing else.
C4_OnlyTimeoutFailure ==
    \A k \in Ids :
        (TimedOut(k) /\ Left(k))
            => /\ calls[k].out.kind = "raise"
               /\ IsFunctionTimedOut(calls[k].out.v)
               /\ calls[k].out.v.src = "line84"

InCall == pc \in {"join", "isAlive", "setStopped", "stopThread", "graceJoin",
                  "raiseTimeout", "deliver"}

\* C5: a call with a finite timeout is eventually left by the invoking
\* context, whatever its worker does.
C5_InvokerLeaves ==
    \A n \in 1..MaxCalls :
        (cur = n /\ InCall /\ calls[n].timeout.t = "num")
            ~> (Len(calls) >= n /\ Left(n))

\* C5 happens: a call with a finite timeout has been left while its worker,
\* which discarded an injected error, is still running the callable.
C5_Witness ==
    \E k \in Ids :
        /\ calls[k].timeout.t = "num"
        /\ Left(k)
        /\ calls[k].tpc = "func"
        /\ calls[k].func.t = "function"
        /\ calls[k].injected
        /\ ~calls[k].asyncExc

\* C6: a retry with "same" or with an explicit duration starts a bounded
\* call of the callable and arguments of the call that timed out, with that
\* call's duration or with the explicit one.
C6_RetryRepeatsCall ==
    \A k \in Ids :
        (calls[k].origin.op = "retry" /\ calls[k].origin.of >= 1)
            => LET o == calls[calls[k].origin.of]
               IN /\ calls[k].func = o.func
                  /\ calls[k].args = o.args
                  /\ calls[k].kwargs = o.kwargs
                  /\ calls[k].timeout = IF calls[k].origin.setting = RETRY_SAME_TIMEOUT
                                        THEN o.timeout
                                        ELSE calls[k].origin.setting

\* C7: retry(None) on the failure of a call runs that call's callable with
\* its arguments in the invoking context, and ends with what it produces.
C7_RetryNoneRunsCallable ==
    (lastOp.name = "retry" /\ lastOp.setting = None /\ lastOp.of >= 1)
        => \/ /\ pc = "direct"
              /\ direct.func = calls[lastOp.of].func
              /\ direct.args = calls[lastOp.of].args
              /\ direct.kwargs = calls[lastOp.of].kwargs
           \/ /\ pc = "idle"
              /\ \/ result.kind = "return"
                 \/ result.kind = "raise" /\ result.v.src = "func"

\* C8: the captured-error slot never holds a FunctionTimedOut nor an error
\* made by the injection, and the re-raise of a captured error never raises
\* one.
C8_SignalNeverCaptured ==
    \A k \in Ids :
        /\ \A i \in 1..Len(calls[k].exception) :
              /\ ~IsFunctionTimedOut(calls[k].exception[i])
              /\ calls[k].exception[i].src # "async"
        /\ (Finished(k) /\ Left(k) /\ calls[k].out.kind = "raise")
              => /\ ~IsFunctionTimedOut(calls[k].out.v)
                 /\ calls[k].out.v.src # "async"

\* C8 happens: a worker in which the injected signal was raised has
\* finished, and its captured-error slot is empty.
C8_Witness ==
    \E k \in Ids :
        /\ calls[k].fres.kind = "raise"
        /\ calls[k].fres.v.src = "async"
        /\ ~isAlive(k)
        /\ calls[k].exception = <<>>

\* C9: the stop request on a worker that has finished changes nothing: it
\* raises nothing, the worker stays finished, the captured outcome and the
\* results delivered stay as they are, and it starts no delivery, however
\* often it is repeated.
C9_StopFinishedIsNoOp ==
    [][ /\ (pc = "stopThread" /\ pc' = "graceJoin" /\ ~isAlive(cur))
            => UNCHANGED <<calls, result, held>>
        /\ \A k \in Ids :
              ~isAlive(k) => /\ stopThread(stopThread(calls[k])) = calls[k]
                             /\ ~isAlive(k)'
                             /\ calls'[k].asyncExc = FALSE ]_vars

\* C9 happens: the worker finished between the liveness check and the stop
\* request, and the stop request has been made.
C9_Witness ==
    \E k \in Ids :
        /\ k = cur
        /\ pc = "graceJoin"
        /\ TimedOut(k)
        /\ ~isAlive(k)
        /\ ~calls[k].joinThread
        /\ ~calls[k].injected

\* C10: a call through the wrapper made by func_set_timeout enters
\* func_timeout with the duration resolved from forceTimeout, the
\* timeout-computing function or the configured timeout, and with
\* forceTimeout removed from the arguments.
C10_WrapperResolvesTimeout ==
    lastOp.name = "func_set_timeout"
        => LET w == _function_wrapper(lastOp.timeout, lastOp.allowOverride,
                                      lastOp.args, lastOp.kwargs)
           IN /\ pc = "join"
              /\ calls[cur].timeout = w.useTimeout
              /\ calls[cur].kwargsIn = w.kwargs

\* C11: after a stop request on a live worker the signal is delivered again
\* and again while the worker is alive, so a worker that discards finitely
\* many deliveries ends up not alive and the redelivery ends; a worker that
\* is not alive receives no delivery.
C11_RedeliveryUntilDead ==
    /\ \A n \in 1..MaxCalls :
          (Len(calls) >= n /\ calls[n].joinThread)
              ~> (/\ Len(calls) >= n
                  /\ ~isAlive(n)
                  /\ ~calls[n].joinThread
                  /\ ~calls[n].asyncExc)
    /\ [][ \A k \in Ids :
              ~isAlive(k) => /\ calls'[k].asyncExc = FALSE
                             /\ calls'[k].injected = calls[k].injected ]_vars

\* C11 happens: a worker has discarded a delivery and runs on, and the one
\* stop request made for it is about to deliver the signal again.
C11_Witness ==
    \E k \in Ids :
        /\ calls[k].joinThread
        /\ calls[k].injected
        /\ ~calls[k].asyncExc
        /\ calls[k].tpc = "func"
        /\ calls[k].func.t = "function"
        /\ ENABLED Redeliver(k)

\* C12 as stated: every step that writes the captured-error slot is taken in
\* a state where the Stopped flag is false.
C12_CaptureOnlyWhileNotStopped ==
    [][ \A k \in Ids :
          calls'[k].exception # calls[k].exception => ~calls[k].isStopped ]_vars

\* C12 amended: the captured-error slot is written only by the append that
\* follows the worker's own test of the Stopped flag, and that append is
\* reached only when the test read false; a handler that tests the flag
\* when it is set captures nothing; and an error in the slot of a call
\* whose flag is set is never what that call raises.
C12_CaptureOnlyAfterFalseTest ==
    [][ \A k \in Ids :
          /\ calls'[k].exception # calls[k].exception => calls[k].tpc = "capture"
          /\ (calls[k].tpc # "capture" /\ calls'[k].tpc = "capture")
                => (calls[k].tpc = "handler" /\ ~calls[k].isStopped)
          /\ (calls[k].tpc = "handler" /\ calls[k].isStopped /\ calls'[k].tpc # "handler")
                => (calls'[k].tpc = "exit" /\ calls'[k].exception = calls[k].exception)
          /\ (calls[k].isStopped /\ Left(k) /\ calls[k].exception # <<>>)
                => calls[k].out # Raise(calls[k].exception[1]) ]_vars

\* C12 happens: an error was appended to the slot of a call whose flag is
\* set, and the call has ended with something else.
C12_Witness ==
    \E k \in Ids :
        /\ calls[k].isStopped
        /\ calls[k].exception # <<>>
        /\ Left(k)
        /\ calls[k].out # Raise(calls[k].exception[1])

\* C13: in every state of a call, ret and exception hold at most one entry
\* between them, none while the callable is running (or the call of it has
\* not failed yet), and a slot that holds an entry is never written again
\* nor is the other one.
C13_OutcomeWrittenOnce ==
    /\ [](\A k \in Ids :
            /\ Len(calls[k].ret) + Len(calls[k].exception) <= 1
            /\ calls[k].tpc = "func"
                  => (calls[k].ret = <<>> /\ calls[k].exception = <<>>))
    /\ [][ \A k \in Ids :
              (calls[k].ret # <<>> \/ calls[k].exception # <<>>)
                  => /\ calls'[k].ret = calls[k].ret
                     /\ calls'[k].exception = calls[k].exception ]_vars

\* C13 happens: one finished worker has captured a value and no error, and
\* another one an error and no value.
C13_Witness ==
    \E j, k \in Ids :
        /\ ~isAlive(j) /\ Len(calls[j].ret) = 1 /\ calls[j].exception = <<>>
        /\ ~isAlive(k) /\ Len(calls[k].exception) = 1 /\ calls[k].ret = <<>>

\* C14: the outcome slots of a worker that is not alive are never written
\* again and a worker never becomes alive again, and func_timeout reads the
\* slots (lines 86-90) only after its liveness check found the worker not
\* alive, so what it reads is final.
C14_OutcomeFinalWhenDead ==
    /\ [](pc = "deliver" => (Finished(cur) /\ ~isAlive(cur)))
    /\ [][ \A k \in Ids :
              /\ ~isAlive(k) => /\ calls'[k].ret = calls[k].ret
                                /\ calls'[k].exception = calls[k].exception
                                /\ ~isAlive(k)'
              /\ (calls'[k].out # calls[k].out /\ Finished(k))
                    => /\ ~isAlive(k)
                       /\ calls'[k].out = DeliverOutcome(calls[k].exception, calls[k].ret)
          ]_vars

\* C14 happens: the slots are about to be read, after the liveness check
\* found the worker finished with a captured error.
C14_Witness ==
    /\ pc = "deliver"
    /\ Finished(cur)
    /\ ~isAlive(cur)
    /\ Len(calls[cur].exception) = 1

\* C15: the Stopped flag of a call starts false and is changed only by the
\* invoking context, from false to true, on the timeout path (line 79), in
\* a step that is no worker's; it never returns to false; the outcome slots
\* start empty and are changed only in steps of the call's worker, which
\* change nothing of the invoking context.
C15_SingleWriters ==
    [][ /\ Len(calls') > Len(calls)
            => /\ calls'[Len(calls')].isStopped = FALSE
               /\ calls'[Len(calls')].ret = <<>>
               /\ calls'[Len(calls')].exception = <<>>
        /\ \A k \in Ids :
              /\ calls'[k].isStopped # calls[k].isStopped
                    => /\ pc = "setStopped" /\ pc' = "stopThread"
                       /\ k = cur
                       /\ TimedOut(k)
                       /\ calls[k].isStopped = FALSE /\ calls'[k].isStopped = TRUE
                       /\ \A j \in Ids : /\ calls'[j].tpc = calls[j].tpc
                                          /\ calls'[j].ret = calls[j].ret
                                          /\ calls'[j].exception = calls[j].exception
              /\ calls[k].isStopped => calls'[k].isStopped
              /\ (calls'[k].ret # calls[k].ret \/ calls'[k].exception # calls[k].exception)
                    => /\ calls[k].tpc \in {"append", "capture"}
                       /\ calls'[k].tpc = "exit"
                       /\ UNCHANGED <<pc, result, held, heldFrom, lastOp, direct>>
                       /\ \A j \in Ids : calls'[j].isStopped = calls[j].isStopped
      ]_vars

\* C15 happens: the invoking context has set the flag of a call on its
\* timeout path, and the worker of that call has written its value slot.
C15_Witness ==
    \E k \in Ids :
        /\ TimedOut(k)
        /\ calls[k].isStopped
        /\ Len(calls[k].ret) = 1

C17_StopOnlyOnTimeoutPath ==
    \A k \in Ids :
        /\ (Left(k) /\ (\/ calls[k].out.kind = "return"
                         \/ calls[k].out.v.src \in {"func", "call"}))
              => /\ Finished(k)
                 /\ ~calls[k].isStopped
                 /\ ~calls[k].injected
                 /\ ~calls[k].joinThread
        /\ (calls[k].isStopped \/ calls[k].injected \/ calls[k].joinThread)
              => /\ TimedOut(k)
                 /\ Left(k) => /\ calls[k].out.kind = "raise"
                               /\ IsFunctionTimedOut(calls[k].out.v)
                               /\ calls[k].out.v.src = "line84"

\* What a call found finished by its liveness check ends with, going by
\* what its own callable did.
OwnOutcome(k) ==
    LET r == calls[k].fres
    IN IF r = NoOut THEN Raise(Err("TypeError", "call", k))
       ELSE IF r.kind = "return" THEN r
       ELSE IF IsException(r.v) THEN r
       ELSE Return(None)

\* C18: the slots of a call hold only what its own worker produced, and a
\* call found finished ends with the outcome of its own callable, whatever
\* the workers of earlier calls do or have done and whether or not the
\* Stopped flag of an earlier call is set; a retry is such a later call.
C18_CallsDoNotInterfere ==
    \A k \in Ids :
        /\ \A i \in 1..Len(calls[k].exception) : calls[k].exception[i].k = k
        /\ (calls[k].ret # <<>>) => calls[k].fres = Return(calls[k].ret[1])
        /\ (Finished(k) /\ ~isAlive(k) /\ OwnOutcome(k).kind = "raise")
              => calls[k].exception = <<OwnOutcome(k).v>>
        /\ (Finished(k) /\ Left(k))
              => /\ calls[k].out = OwnOutcome(k)
                 /\ calls[k].out.kind = "raise" => calls[k].out.v.k = k

\* C18 happens: an earlier call timed out, its flag is set and its worker
\* went on to produce the value 42; a later call, whose callable raised
\* ValueError, has re-raised that error.
C18_Witness ==
    \E j, k \in Ids :
        /\ j < k
        /\ TimedOut(j) /\ calls[j].isStopped /\ Left(j)
        /\ calls[j].ret = <<Num(42)>>
        /\ Finished(k)
        /\ calls[k].out = Raise(Err("ValueError", "func", k))

====
